---- MODULE Spec2Model ----
(***************************************************************************)
(* Promiseify: the callback-to-promise adapter of the settings-manager     *)
(* example.  The model follows one adapted function (the wrapper returned  *)
(* by doPromiseify for a callable target) through a sequence of adapted    *)
(* calls.  The original callable and the user's handlers are environment   *)
(* code: the original may fire either injected handler any number of       *)
(* times, in the adapted call's own turn or in a later timer turn, and may *)
(* return or throw; a user handler may return or throw.  The promise and   *)
(* its continuations follow the single-resolution promise primitive the    *)
(* adapter is built on.  The presets (nodeStyle, chromeRuntimeAPIStyle)    *)
(* and the adaptation of an object's members (only, include, exclude, the  *)
(* enumeration of callable names) have specifications of their own.        *)
(***************************************************************************)
EXTENDS Integers, Sequences, FiniteSets, TLC

\* ------------------------------------------------------------- bounds
MaxCalls == 2    \* adapted calls made on the adapted function
MaxFires == 2    \* firings of injected handlers, over all calls
MaxConts == 2    \* continuations registered on returned promises, over all calls
MaxArgs == 3     \* longest argument list handed to the adapted function
MaxListed == 2   \* most names listed in one of only, include, exclude
MaxRequests == 3 \* calls made on one settings manager

\* ------------------------------------------------------------- state
VARIABLES
    configured,   \* options.outcomeRedirector as the caller passed it to Promiseify
    options,      \* the options record the wrapper closes over
    calls,        \* the adapted calls made so far, in order
    stack,        \* whose code runs: "idle", "original", "caller" or "timer"
    cur,          \* the call the running turn belongs to
    microtasks,   \* promise reaction jobs waiting for the stack to empty
    nfires,       \* firings so far
    nconts,       \* continuations registered so far
    window,       \* the page's global object: chrome.runtime and its lastError
    target,       \* the value handed to Promiseify
    selectors,    \* options.only, options.include and options.exclude
    heap,         \* the objects: own members in insertion order, and prototype
    result,       \* what Promiseify returned or threw
    lastInvoke,   \* the last member of the target a caller invoked
    stores,       \* this.settings of each manager's in-memory store
    timers,       \* callbacks handed to setTimeout, oldest first
    requests,     \* the calls made on the managers, in order
    runs          \* the demo's runs: script position, text area, done

\* The state of an adapted object.
objects == <<target, selectors, heap, result, lastInvoke>>

\* The state of the settings managers and of the demo.
managers == <<stores, timers, requests, runs>>

vars == <<configured, options, calls, stack, cur, microtasks, nfires, nconts,
          window, target, selectors, heap, result, lastInvoke,
          stores, timers, requests, runs>>

\* ------------------------------------------------------------- values
\* A JavaScript value: what typeof answers, and a printable identity.
Undefined == [type |-> "undefined", val |-> "undefined"]
Null == [type |-> "object", val |-> "null"]
Boom == [type |-> "string", val |-> "boom"]
Data == [type |-> "object", val |-> "{a:1}"]
True == [type |-> "boolean", val |-> "true"]
False == [type |-> "boolean", val |-> "false"]
Fn(name) == [type |-> "function", val |-> name]

\* The user's callables, the two injected handlers, the redirectors.
onOk == Fn("onOk")
onFail == Fn("onFail")
onSuccessPromiseified == Fn("onSuccessPromiseified")
onErrorPromiseified == Fn("onErrorPromiseified")
trueRedirector == Fn("trueRedirector")
falseRedirector == Fn("falseRedirector")
notFirst == Fn("error => !error")
first == Fn("value => value")

\* Errors thrown by the original callable and by a user handler.
OriginalError == [type |-> "object", val |-> "Error(original)"]
HandlerError == [type |-> "object", val |-> "Error(handler)"]

\* JavaScript truthiness (the !! of the source).
Truthy(v) == v.val \notin {"undefined", "null", "false", "0", ""}

Bool(b) == IF b THEN True ELSE False

getType(o) == o.type

\* 'function' === getType(candidate) || candidate instanceof Function: the
\* two tests agree on every value of the model.
isFunction(candidate) == "function" = getType(candidate)

\* arguments[i - 1] of the source: undefined outside the list.
ArgAt(arguments, i) ==
    IF i >= 1 /\ i <= Len(arguments) THEN arguments[i] ELSE Undefined

\* The redirector of Promiseify.chromeRuntimeAPIStyle.
lastErrorUnset == Fn("chromeRuntimeAPIStyle redirector")

\* chrome.runtime.lastError when the last API call failed.
RuntimeError == [type |-> "object", val |-> "lastError"]

\* A page without window.chrome.runtime.
NoChrome == [runtime |-> FALSE, lastError |-> Undefined]

\* What calling a redirector function with the result list yields.
Apply(fn, args) ==
    CASE fn = trueRedirector -> True
      [] fn = falseRedirector -> False
      [] fn = lastErrorUnset ->
            IF window.runtime
            THEN Bool(window.lastError = Undefined \/ window.lastError = Null)
            ELSE True
      [] fn = notFirst -> Bool(~Truthy(ArgAt(args, 1)))
      [] fn = first -> ArgAt(args, 1)
      [] OTHER -> Undefined

\* execute(fn, args): the function's result, null for a non-function.
execute(fn, args) == IF isFunction(fn) THEN Apply(fn, args) ELSE Null

\* ------------------------------------------------------------- inputs
\* Redirectors a caller configures in options.outcomeRedirector.
Redirectors == {notFirst, first}

\* Result lists the original hands to an injected handler.
Results == {<<>>, <<Boom>>}

\* Values a caller passes to the adapted function.
ArgValues == {Data, onOk, onFail}

RECURSIVE ListsUpTo(_, _)
ListsUpTo(S, n) ==
    IF n = 0 THEN {<<>>}
    ELSE LET shorter == ListsUpTo(S, n - 1)
         IN shorter \cup {Append(l, x) : l \in {s \in shorter : Len(s) = n - 1}, x \in S}

\* Every argument list of at most MaxArgs values.
ArgLists == ListsUpTo(ArgValues, MaxArgs)

\* The handler configurations: none, success only, success and failure.
CallShapes == {<<Data>>, <<Data, onOk>>, <<Data, onOk, onFail>>}

\* ------------------------------------------------------------- promise
NoValue == [kind |-> "none", items |-> <<>>, v |-> Undefined]
ListValue(list) == [kind |-> "array", items |-> list, v |-> Undefined]
ThrownValue(e) == [kind |-> "thrown", items |-> <<>>, v |-> e]

Pending == [state |-> "pending", value |-> NoValue]

\* Reaction jobs of the continuations from..to of call c, in registration order.
Jobs(c, from, to) == [i \in 1..(to - from + 1) |-> [call |-> c, id |-> from + i - 1]]

\* resolve / reject of the promise primitive: the first settlement wins.
Settle(promise, state, value) ==
    IF promise.state = "pending" THEN [state |-> state, value |-> value] ELSE promise

resolve(promise, executionArgs) == Settle(promise, "fulfilled", ListValue(executionArgs))

reject(promise, executionArgs) == Settle(promise, "rejected", ListValue(executionArgs))

\* The promise constructor turns a throw of its executor into a rejection.
rejectThrown(promise, error) == Settle(promise, "rejected", ThrownValue(error))


\* ------------------------------------------------------------- the wrapper
\* Mutant of parseArguments: only the last argument is ever looked at, so a
\* trailing pair of callables yields a success handler and no failure handler.
parseLastOnly(arguments) ==
    LET n == Len(arguments)
    IN IF isFunction(ArgAt(arguments, n))
       THEN [successHandler |-> arguments[n], failureHandler |-> Undefined,
             executionArguments |-> SubSeq(arguments, 1, n - 1)]
       ELSE [successHandler |-> Undefined, failureHandler |-> Undefined,
             executionArguments |-> arguments]

\* Mutant of parseArguments: with two or more arguments a lone trailing
\* callable is taken as the success handler but left in the forwarded list.
parseKeepsLoneCallback(arguments) ==
    LET n == Len(arguments)
        none == [successHandler |-> Undefined, failureHandler |-> Undefined,
                 executionArguments |-> arguments]
    IN IF n = 1
       THEN IF isFunction(arguments[1])
            THEN [none EXCEPT !.successHandler = arguments[1],
                              !.executionArguments = <<>>]
            ELSE none
       ELSE IF isFunction(ArgAt(arguments, n)) /\ isFunction(ArgAt(arguments, n - 1))
            THEN [successHandler |-> arguments[n - 1], failureHandler |-> arguments[n],
                  executionArguments |-> SubSeq(arguments, 1, n - 2)]
            ELSE IF isFunction(ArgAt(arguments, n))
                 THEN [none EXCEPT !.successHandler = arguments[n]]
                 ELSE none

\* Mutant of parseArguments: the one-argument case is missing, so a single
\* callable goes through the general case's tests of the last two arguments
\* and is forwarded when they fail to strip it.
parseWithoutSingleCase(arguments) ==
    LET n == Len(arguments)
        none == [successHandler |-> Undefined, failureHandler |-> Undefined,
                 executionArguments |-> arguments]
    IN IF n >= 2 /\ isFunction(arguments[n]) /\ isFunction(arguments[n - 1])
       THEN [successHandler |-> arguments[n - 1], failureHandler |-> arguments[n],
             executionArguments |-> SubSeq(arguments, 1, n - 2)]
       ELSE IF n >= 2 /\ isFunction(arguments[n])
            THEN [none EXCEPT !.successHandler = arguments[n],
                              !.executionArguments = SubSeq(arguments, 1, n - 1)]
            ELSE none

\* Separates the user's handlers from the arguments to forward.
parseArguments(arguments) ==
    LET n == Len(arguments)
        none == [successHandler |-> Undefined, failureHandler |-> Undefined,
                 executionArguments |-> arguments]
    IN IF n = 1
       THEN IF isFunction(arguments[1])
            THEN [none EXCEPT !.successHandler = arguments[1],
                              !.executionArguments = <<>>]
            ELSE none
       ELSE \* also taken for an empty list: the source's first test has no else
            IF isFunction(ArgAt(arguments, n)) /\ isFunction(ArgAt(arguments, n - 1))
            THEN [successHandler |-> arguments[n - 1], failureHandler |-> arguments[n],
                  executionArguments |-> SubSeq(arguments, 1, n - 2)]
            ELSE IF isFunction(ArgAt(arguments, n))
                 THEN [none EXCEPT !.successHandler = arguments[n],
                                   !.executionArguments = SubSeq(arguments, 1, n - 1)]
                 ELSE none

\* Mutant of injectHandlers: only the success handler is pushed.
injectSuccessOnly(executionArguments) ==
    Append(executionArguments, onSuccessPromiseified)

\* The two pushes of the promise executor.
injectHandlers(executionArguments) ==
    executionArguments \o <<onSuccessPromiseified, onErrorPromiseified>>

\* The adapted call up to and including target.apply(context, executionArguments).
newCall(arguments) ==
    LET parsed == parseArguments(arguments)
    IN [arguments |-> arguments,
        successHandler |-> parsed.successHandler,
        failureHandler |-> parsed.failureHandler,
        executionArguments |-> injectHandlers(parsed.executionArguments),
        promise |-> Pending,
        phase |-> "running",       \* the original: running, returned or threw
        invocations |-> 1,         \* times the original was invoked for this call
        toCaller |-> "nothing",    \* what the adapted call gave its caller
        thrown |-> Undefined,      \* what the original threw, if it threw
        fired |-> 0,               \* firings of this call's injected handlers
        okCalls |-> 0,             \* invocations of the user's success handler
        failCalls |-> 0,           \* invocations of the user's failure handler
        thens |-> 0,               \* continuations registered on the promise
        ran |-> <<>>]              \* continuations run, by registration number

\* function trueRedirector / function falseRedirector
defaultRedirector(which) ==
    IF which = "success" THEN trueRedirector ELSE falseRedirector

\* options.outcomeRedirector = options.outcomeRedirector || <default>
withRedirector(opts, which) ==
    [opts EXCEPT !.outcomeRedirector =
        IF Truthy(opts.outcomeRedirector) THEN opts.outcomeRedirector
        ELSE defaultRedirector(which)]

\* Mutant of executeSuccess: the promise is resolved and the user's success
\* handler is left out.
executeSuccessPromiseOnly(call, executionArgs, throws) ==
    [call EXCEPT !.promise = resolve(@, executionArgs)]

\* executeSuccess: the user's success handler, then resolve.  A handler that
\* throws leaves the function before resolve is reached.
executeSuccess(call, executionArgs, throws) ==
    LET invoked == isFunction(call.successHandler)
        after == [call EXCEPT !.okCalls = IF invoked THEN @ + 1 ELSE @]
    IN IF invoked /\ throws THEN after
       ELSE [after EXCEPT !.promise = resolve(@, executionArgs)]

\* Mutant of executeFailure: a failure outcome applies the original once more
\* before it is reported.
executeFailureRetries(call, executionArgs, throws) ==
    LET invoked == isFunction(call.failureHandler)
        after == [call EXCEPT !.failCalls = IF invoked THEN @ + 1 ELSE @,
                              !.invocations = @ + 1]
    IN IF invoked /\ throws THEN after
       ELSE [after EXCEPT !.promise = reject(@, executionArgs)]

\* Mutant of executeFailure: the rejection is stored without asking whether
\* the promise is still pending.
executeFailureOverwrites(call, executionArgs, throws) ==
    LET invoked == isFunction(call.failureHandler)
        after == [call EXCEPT !.failCalls = IF invoked THEN @ + 1 ELSE @]
    IN IF invoked /\ throws THEN after
       ELSE [after EXCEPT !.promise = [state |-> "rejected",
                                       value |-> ListValue(executionArgs)]]

\* executeFailure: the user's failure handler, then reject.
executeFailure(call, executionArgs, throws) ==
    LET invoked == isFunction(call.failureHandler)
        after == [call EXCEPT !.failCalls = IF invoked THEN @ + 1 ELSE @]
    IN IF invoked /\ throws THEN after
       ELSE [after EXCEPT !.promise = reject(@, executionArgs)]

\* !!execute(options.outcomeRedirector, executionArgs)
verdict(opts, executionArgs) == Truthy(execute(opts.outcomeRedirector, executionArgs))

\* The body shared by onSuccessPromiseified and onErrorPromiseified.
dispatch(call, opts, executionArgs, throws) ==
    IF verdict(opts, executionArgs)
    THEN executeSuccess(call, executionArgs, throws)
    ELSE executeFailure(call, executionArgs, throws)

\* The user handler a firing invokes, undefined when none was supplied.
handlerFor(call, opts, executionArgs) ==
    LET h == IF verdict(opts, executionArgs) THEN call.successHandler
             ELSE call.failureHandler
    IN IF isFunction(h) THEN h ELSE Undefined

\* Mutant of originalThrew: the original is applied outside the promise
\* executor, so its exception reaches the caller of the adapted function.
originalThrewEscapes(call, error) ==
    [call EXCEPT !.phase = "threw",
                 !.thrown = error,
                 !.toCaller = "exception"]

\* The executor threw: the promise constructor rejects, the adapted call
\* still returns the promise.
originalThrew(call, error) ==
    [call EXCEPT !.promise = rejectThrown(@, error),
                 !.phase = "threw",
                 !.thrown = error,
                 !.toCaller = "promise"]

\* Mutant of originalReturned: the promise is resolved when the original
\* returns, without waiting for an injected handler.
originalReturnedResolves(call) ==
    [call EXCEPT !.phase = "returned", !.toCaller = "promise",
                 !.promise = resolve(@, <<>>)]

\* The executor ran to its end: the adapted call returns the promise.
originalReturned(call) ==
    [call EXCEPT !.phase = "returned", !.toCaller = "promise"]

\* Reaction jobs a step queues for call c: all registered continuations at
\* the step that settles the promise.
reactions(c, before, after) ==
    IF before.promise.state = "pending" /\ after.promise.state # "pending"
    THEN Jobs(c, 1, after.thens) ELSE <<>>

\* buildWithOutcomeRedirector stores the preset's redirector in the options
\* record, over whatever the caller had put there.
buildWithOutcomeRedirector(opts, outcomeRedirector) ==
    [opts EXCEPT !.outcomeRedirector = outcomeRedirector]

\* Promiseify.chromeRuntimeAPIStyle: success iff chrome.runtime.lastError is
\* undefined or null, or there is no chrome.runtime.
chromeRuntimeAPIStyle(opts) == buildWithOutcomeRedirector(opts, lastErrorUnset)

\* Promiseify.nodeStyle: success iff the first result argument is falsy.
nodeStyle(opts) == buildWithOutcomeRedirector(opts, notFirst)

\* ------------------------------------------------------------- objects
\* A value held by an object or handed to Promiseify: what typeof answers, a
\* printable identity, how many wrappers doPromiseify has put around it and
\* the context those wrappers apply the original with.
Member(type, val) == [type |-> type, val |-> val, wraps |-> 0, context |-> "none"]
Method(name) == Member("function", name)
Missing == Member("undefined", "undefined")
Store == Member("object", "backingStore")

\* 'object' === getType(candidate).
isObject(candidate) == "object" = getType(candidate)

\* The property names of the model, in the order sort() puts them.
NameOrder ==
    <<"backingStore", "constructor", "length", "load", "push", "save", "toString">>
Rank(name) == CHOOSE i \in 1..Len(NameOrder) : NameOrder[i] = name

\* The objects: the target, another instance, their prototype,
\* Object.prototype, and the store the instances hold as backingStore.
Ids == {"target", "sibling", "proto", "base", "store"}
Entry(name, value) == [name |-> name, value |-> value]

\* Object.prototype.
BaseObject ==
    [own |-> <<Entry("constructor", Method("Object")),
               Entry("toString", Method("Object.prototype.toString"))>>,
     proto |-> "none"]

\* Object.getOwnPropertyNames(Object.getPrototypeOf(new Object())).
OBJECT_PROTOTYPE_FUNCTION_NAMES ==
    {BaseObject.own[i].name : i \in DOMAIN BaseObject.own}

\* The object held as backingStore, with methods of its own.
StoreObject ==
    [own |-> <<Entry("load", Method("InMemoryStore.load")),
               Entry("save", Method("InMemoryStore.save"))>>,
     proto |-> "base"]

\* A heap whose target has the given own members and parent.
Heap(own, parent, protoOwn) ==
    [id \in Ids |->
        CASE id = "target" -> [own |-> own, proto |-> parent]
          [] id = "sibling" -> [own |-> <<Entry("backingStore", Store)>>, proto |-> "proto"]
          [] id = "proto" -> [own |-> protoOwn, proto |-> "base"]
          [] id = "store" -> StoreObject
          [] OTHER -> BaseObject]

\* The members class SettingsManager defines.
ClassOwn ==
    <<Entry("constructor", Method("SettingsManager")),
      Entry("load", Method("load")), Entry("save", Method("save"))>>

\* new SettingsManager().
InstanceHeap == Heap(<<Entry("backingStore", Store)>>, "proto", ClassOwn)

\* An object literal { save, load, backingStore }.
LiteralHeap ==
    Heap(<<Entry("save", Method("save")), Entry("load", Method("load")),
           Entry("backingStore", Store)>>, "base", <<>>)

\* An instance of a class that defines its own toString.
PrintableHeap ==
    Heap(<<Entry("backingStore", Store)>>, "proto",
         <<Entry("constructor", Method("SettingsManager")),
           Entry("toString", Method("SettingsManager.toString")),
           Entry("save", Method("save"))>>)

\* An instance whose own data member hides a method of its class.
ShadowHeap == Heap(<<Entry("load", Member("object", "{cached}"))>>, "proto", ClassOwn)

\* An array and Array.prototype.
ArrayHeap ==
    Heap(<<Entry("length", Member("number", "2"))>>, "proto",
         <<Entry("constructor", Method("Array")), Entry("push", Method("push"))>>)

\* No object at the target's address.
PlainHeap == Heap(<<>>, "base", <<>>)

RecordTarget == Member("object", "{...}")
ArrayTarget == Member("object", "[1,2]")
NullTarget == Member("object", "null")
CallableTarget == Method("original")

\* What a caller hands to Promiseify, with the heap it lives in.
Targets ==
    {[value |-> RecordTarget, heap |-> h] :
        h \in {InstanceHeap, LiteralHeap, PrintableHeap, ShadowHeap}}
    \cup {[value |-> ArrayTarget, heap |-> ArrayHeap]}
    \cup {[value |-> v, heap |-> PlainHeap] :
            v \in {NullTarget, Missing, Member("number", "42"),
                   Member("string", "boom"), Member("boolean", "true"),
                   CallableTarget}}

\* An option that was not given, and one that lists names.
Unset == [given |-> FALSE, names |-> <<>>]
Listed(names) == [given |-> TRUE, names |-> names]
NoSelectors == [only |-> Unset, include |-> Unset, exclude |-> Unset]

\* The names a caller lists, and the lists of at most MaxListed of them.
OptionNames == {"backingStore", "load", "save", "toString"}
NameLists ==
    {l \in ListsUpTo(OptionNames, MaxListed) :
        \A i \in 1..(Len(l) - 1) : Rank(l[i]) < Rank(l[i + 1])}
Selectors == {Unset} \cup {Listed(l) : l \in NameLists}

\* Array.prototype.includes.
Includes(list, x) == \E i \in DOMAIN list : list[i] = x

\* Array.prototype.sort on names.
RECURSIVE sort(_)
sort(list) ==
    IF list = <<>> THEN <<>>
    ELSE LET i == CHOOSE i \in DOMAIN list :
                    \A j \in DOMAIN list : Rank(list[i]) <= Rank(list[j])
         IN <<list[i]>> \o sort(SubSeq(list, 1, i - 1) \o SubSeq(list, i + 1, Len(list)))

\* The own names of one object that pass the filters of getAllFunctionNames.
ownFunctionNames(h, id, functionNames) ==
    LET kept == SelectSeq(h[id].own, LAMBDA e :
                    /\ Truthy(e.value)
                    /\ isFunction(e.value)
                    /\ e.name \notin OBJECT_PROTOTYPE_FUNCTION_NAMES
                    /\ ~Includes(functionNames, e.name))
    IN [i \in 1..Len(kept) |-> kept[i].name]

\* do { ... } while (target = Object.getPrototypeOf(target)).
RECURSIVE walk(_, _, _)
walk(h, id, functionNames) ==
    LET found == functionNames \o ownFunctionNames(h, id, functionNames)
    IN IF h[id].proto = "none" THEN found ELSE walk(h, h[id].proto, found)

getAllFunctionNames(h, t) ==
    sort(IF Truthy(t) /\ isObject(t) THEN walk(h, "target", <<>>) ELSE <<>>)

\* object[name], through the prototype chain.
RECURSIVE Get(_, _, _)
Get(h, id, name) ==
    IF \E i \in DOMAIN h[id].own : h[id].own[i].name = name
    THEN h[id].own[CHOOSE i \in DOMAIN h[id].own : h[id].own[i].name = name].value
    ELSE IF h[id].proto = "none" THEN Missing ELSE Get(h, h[id].proto, name)

\* Mutant of SetOwn: the assignment changes the member where it is defined.
SetWhereDefined(h, id, name, value) ==
    LET holder == IF \E i \in DOMAIN h[id].own : h[id].own[i].name = name
                  THEN id ELSE h[id].proto
    IN [h EXCEPT ![holder].own =
            [i \in DOMAIN @ |-> IF @[i].name = name THEN Entry(name, value) ELSE @[i]]]

\* object[name] = value: an own member of the object.
SetOwn(h, id, name, value) ==
    [h EXCEPT ![id].own =
        IF \E i \in DOMAIN @ : @[i].name = name
        THEN [i \in DOMAIN @ |-> IF @[i].name = name THEN Entry(name, value) ELSE @[i]]
        ELSE Append(@, Entry(name, value))]

\* doPromiseify(fn, options, context) for a callable: a new function that
\* applies fn with the context.
promiseified(fn, context) == [fn EXCEPT !.wraps = @ + 1, !.context = context]

\* Mutant of boundThis: the wrapper hands its own receiver on.
receiverThis(fn, receiver) == receiver

\* The `this` the original sees when fn is called with a receiver.
boundThis(fn, receiver) == IF fn.wraps > 0 THEN fn.context ELSE receiver

\* options.include.forEach: the listed names whose member is a function.
RECURSIVE included(_, _, _)
included(h, names, targetFunctions) ==
    IF names = <<>> THEN targetFunctions
    ELSE included(h, Tail(names),
            IF ~Includes(targetFunctions, Head(names))
               /\ isFunction(Get(h, "target", Head(names)))
            THEN Append(targetFunctions, Head(names)) ELSE targetFunctions)

\* Mutant of targetFunctions: exclude is applied to only as well.
targetFunctionsExcludeFirst(h, t, sel) ==
    LET chosen == IF sel.only.given THEN sel.only.names
                  ELSE IF sel.include.given THEN included(h, sel.include.names, <<>>)
                  ELSE getAllFunctionNames(h, t)
    IN IF sel.exclude.given
       THEN SelectSeq(chosen, LAMBDA candidate : ~Includes(sel.exclude.names, candidate))
       ELSE chosen

\* Mutant of targetFunctions: include adds to the enumerated names.
targetFunctionsIncludeAdds(h, t, sel) ==
    IF sel.only.given THEN sel.only.names
    ELSE LET chosen == IF sel.include.given
                       THEN included(h, sel.include.names, getAllFunctionNames(h, t))
                       ELSE getAllFunctionNames(h, t)
         IN IF sel.exclude.given
            THEN SelectSeq(chosen, LAMBDA candidate : ~Includes(sel.exclude.names, candidate))
            ELSE chosen

\* The names doPromiseify goes through: only, or include or the enumerated
\* names, less exclude.
targetFunctions(h, t, sel) ==
    IF sel.only.given THEN sel.only.names
    ELSE LET chosen == IF sel.include.given
                       THEN included(h, sel.include.names, <<>>)
                       ELSE getAllFunctionNames(h, t)
         IN IF sel.exclude.given
            THEN SelectSeq(chosen, LAMBDA candidate : ~Includes(sel.exclude.names, candidate))
            ELSE chosen

\* targetFunctions.forEach: each member that is a function is replaced by
\* its wrapper, bound to the target.
RECURSIVE replaceAll(_, _)
replaceAll(h, names) ==
    IF names = <<>> THEN h
    ELSE LET member == Get(h, "target", Head(names))
         IN replaceAll(IF isFunction(member)
                       THEN SetOwn(h, "target", Head(names), promiseified(member, "target"))
                       ELSE h,
                       Tail(names))

\* Reading a member of null throws a TypeError: this happens when the name
\* lists of only or include are gone through.
readsMember(sel) ==
    \/ sel.only.given /\ sel.only.names # <<>>
    \/ ~sel.only.given /\ sel.include.given /\ sel.include.names # <<>>

NoError == [message |-> "", type |-> ""]
TypeError == [message |-> "TypeError: Cannot read properties of null", type |-> ""]
CannotPromiseify(type) == [message |-> "Cannot promiseify type: ", type |-> type]

NotRun == [outcome |-> "none", value |-> Missing, address |-> "none", thrown |-> NoError]
Returned(value, address) ==
    [outcome |-> "returned", value |-> value, address |-> address, thrown |-> NoError]
Threw(error) ==
    [outcome |-> "threw", value |-> Missing, address |-> "none", thrown |-> error]

\* Mutant of doPromiseify: the object branch adapts and returns a copy.
doPromiseifyCopy(h, t, sel) ==
    IF isFunction(t)
    THEN [result |-> Returned(promiseified(t, "null"), "none"), heap |-> h]
    ELSE IF isObject(t)
    THEN IF t = NullTarget /\ readsMember(sel)
         THEN [result |-> Threw(TypeError), heap |-> h]
         ELSE [result |-> Returned(t, "copy"), heap |-> h]
    ELSE [result |-> Threw(CannotPromiseify(getType(t))), heap |-> h]

\* doPromiseify(target, options, null): what Promiseify returns or throws,
\* and the heap it leaves.
doPromiseify(h, t, sel) ==
    IF isFunction(t)
    THEN [result |-> Returned(promiseified(t, "null"), "none"), heap |-> h]
    ELSE IF isObject(t)
    THEN IF t = NullTarget
         THEN [result |-> IF readsMember(sel) THEN Threw(TypeError)
                          ELSE Returned(t, "none"),
               heap |-> h]
         ELSE [result |-> Returned(t, "target"),
               heap |-> replaceAll(h, targetFunctions(h, t, sel))]
    ELSE [result |-> Threw(CannotPromiseify(getType(t))), heap |-> h]

NotInvoked == [name |-> "", receiver |-> "", this |-> "", adapted |-> FALSE]

\* Promiseify was handed a callable and returned its wrapper.
CallableAdapted ==
    /\ target = CallableTarget
    /\ selectors = NoSelectors
    /\ heap = PlainHeap
    /\ result = doPromiseify(PlainHeap, CallableTarget, NoSelectors).result
    /\ lastInvoke = NotInvoked

\* ------------------------------------------------------------- settings
\* A value of the settings domain: what typeof answers, a printable
\* identity, and for an object its members in insertion order.
Setting(type, val) == [type |-> type, val |-> val, f |-> <<>>]
Object(entries) == [type |-> "object", val |-> "{}", f |-> entries]
EmptySettings == Object(<<>>)
NoSetting == Setting("undefined", "undefined")
NullSetting == Setting("object", "null")
ArraySetting == Setting("object", "[1,2]")
NotAnObject == Setting("string", "\"settings\" is not an object")

\* Array.isArray.
isArray(candidate) == candidate = ArraySetting

\* isObject of SettingsManager.es6.js:
\* null !== candidate && 'object' === typeof candidate && !isArray(candidate).
isSettingsObject(candidate) ==
    candidate # NullSetting /\ "object" = candidate.type /\ ~isArray(candidate)

\* object[key]: undefined when the object has no such member.
Field(object, key) ==
    IF \E i \in DOMAIN object.f : object.f[i].name = key
    THEN object.f[CHOOSE i \in DOMAIN object.f : object.f[i].name = key].value
    ELSE NoSetting

\* dest[key] = value: a member keeps its place, a new one goes last.
Put(entries, key, value) ==
    IF \E i \in DOMAIN entries : entries[i].name = key
    THEN [i \in DOMAIN entries |->
            IF entries[i].name = key THEN Entry(key, value) ELSE entries[i]]
    ELSE Append(entries, Entry(key, value))

\* Mutant of merge: the members of the first object take precedence.
RECURSIVE mergeKeepsFirst(_, _)
mergeKeepsFirst(into, source) ==
    LET RECURSIVE keep(_, _)
        keep(dest, entries) ==
            IF entries = <<>> THEN dest
            ELSE keep(IF \E i \in DOMAIN dest : dest[i].name = Head(entries).name
                      THEN dest
                      ELSE Append(dest, Head(entries)),
                      Tail(entries))
    IN Object(keep(IF isSettingsObject(into) THEN into.f ELSE <<>>, source.f))

\* merge(target, source) for a source that is not an array, the only kind
\* SettingsManager and InMemoryStore hand it: the members of the target are
\* copied, then each member of source is assigned, an object member being
\* merged into the member target already has.
RECURSIVE merge(_, _)
merge(into, source) ==
    LET RECURSIVE assign(_, _)
        assign(dest, entries) ==
            IF entries = <<>> THEN dest
            ELSE LET key == Head(entries).name
                     value == Head(entries).value
                     merged ==
                        IF ~isSettingsObject(value) \/ ~Truthy(value) THEN value
                        ELSE IF ~Truthy(Field(into, key)) THEN value
                        ELSE merge(Field(into, key), value)
                 IN assign(Put(dest, key, merged), Tail(entries))
    IN Object(assign(IF isSettingsObject(into) THEN into.f ELSE <<>>, source.f))

\* The settings the demo saves, and two with an object member.
One == Setting("number", "1")
Two == Setting("number", "2")
Three == Setting("number", "3")
FirstSave == Object(<<Entry("one", One), Entry("two", Setting("string", "two"))>>)
SecondSave == Object(<<Entry("three", Three), Entry("two", Two)>>)
NestedX == Object(<<Entry("one", Object(<<Entry("x", One)>>))>>)
NestedY == Object(<<Entry("one", Object(<<Entry("y", Two)>>))>>)

\* What a caller hands to save: objects, falsy values, truthy non-objects.
SaveObjects == {FirstSave, SecondSave, NestedX, NestedY}
SaveValues ==
    SaveObjects \cup {NullSetting, NoSetting, Setting("number", "5"),
                      Setting("string", "text"), ArraySetting}

\* The two managers of the demo: a plain one, and one handed to Promiseify.
Instances == {"standard", "promisified"}

\* A call on a manager: the operation and its argument, whether all earlier
\* calls had completed when it was made, the callbacks it has invoked so far
\* and, on the adapted manager, the promise it returned.
NoPromise == [state |-> "none", value |-> NoValue]
Request(instance, op, arg, quiet) ==
    [instance |-> instance, op |-> op, arg |-> arg, quiet |-> quiet,
     delivered |-> <<>>,
     promise |-> IF instance = "promisified" THEN Pending ELSE NoPromise]

\* A callback waiting in setTimeout: a callback of a request with its
\* arguments, or backingStore.clear with the callback it will call.
CallbackTimer(request, fn, args) ==
    [kind |-> "callback", request |-> request, fn |-> fn, args |-> args]
ClearTimer(request, fn) ==
    [kind |-> "clear", request |-> request, fn |-> fn, args |-> <<>>]

\* executeAsync(fn, args): a timer when fn is a function, nothing otherwise.
executeAsync(request, fn, args) ==
    IF isFunction(fn) THEN <<CallbackTimer(request, fn, args)>> ELSE <<>>

\* SettingsManager.load(successCallback, errorCallback): the store hands a
\* copy of its settings to onLoad, which calls successCallback.
managerLoad(request, settings, args) ==
    <<CallbackTimer(request, ArgAt(args, 1), <<merge(EmptySettings, settings)>>)>>

\* InMemoryStore.save(settings, successCallback): the settings it stores.
storeSave(settings, saved) == merge(settings, saved)

\* Mutant of managerSave: the settings go to the store unchecked.
managerSaveUnchecked(request, settings, args) ==
    LET stored == storeSave(settings, ArgAt(args, 1))
    IN [settings |-> stored,
        timers |-> executeAsync(request, ArgAt(args, 2),
                                <<merge(EmptySettings, stored)>>)]

\* SettingsManager.save(settings, successCallback, errorCallback): the
\* store's settings after the call and the timers it sets.
managerSave(request, settings, args) ==
    LET x == ArgAt(args, 1)
        successCallback == ArgAt(args, 2)
        errorCallback == ArgAt(args, 3)
    IN IF ~Truthy(x)
       THEN [settings |-> settings,
             timers |-> executeAsync(request, successCallback, <<EmptySettings>>)]
       ELSE IF isSettingsObject(x)
       THEN LET stored == storeSave(settings, x)
            IN [settings |-> stored,
                timers |-> executeAsync(request, successCallback,
                                        <<merge(EmptySettings, stored)>>)]
       ELSE [settings |-> settings,
             timers |-> executeAsync(request, errorCallback, <<NotAnObject>>)]

\* SettingsManager.clear(successCallback, errorCallback): backingStore.clear
\* is itself run through executeAsync.
managerClear(request, settings, args) ==
    [settings |-> settings,
     timers |-> <<ClearTimer(request, ArgAt(args, 1))>>]

\* The arguments a method of the manager receives: the caller's on the plain
\* manager, the wrapper's on the adapted one.
received(instance, arguments) ==
    IF instance = "promisified"
    THEN injectHandlers(parseArguments(arguments).executionArguments)
    ELSE arguments

\* What a call of a method does to the store, and the timers it sets.
effect(op, request, settings, args) ==
    CASE op = "load" -> [settings |-> settings,
                         timers |-> managerLoad(request, settings, args)]
      [] op = "save" -> managerSave(request, settings, args)
      [] OTHER -> managerClear(request, settings, args)

\* n spaces of indentation.
RECURSIVE pad(_)
pad(n) == IF n = 0 THEN "" ELSE " " \o pad(n - 1)

\* JSON.stringify(value, null, 2) at an indentation: an object with its
\* members one per line, a string quoted (the member strings of the model
\* hold nothing to escape), a number, null or the array as written.
RECURSIVE stringify(_, _)
stringify(x, indent) ==
    LET RECURSIVE members(_)
        members(i) ==
            pad(indent + 2) \o "\"" \o x.f[i].name \o "\": "
                \o stringify(x.f[i].value, indent + 2)
                \o (IF i = Len(x.f) THEN "\n" ELSE ",\n" \o members(i + 1))
    IN IF isSettingsObject(x)
       THEN IF x.f = <<>> THEN "{}"
            ELSE "{\n" \o members(1) \o pad(indent) \o "}"
       ELSE IF x = ArraySetting
       THEN "[\n" \o pad(indent + 2) \o "1,\n" \o pad(indent + 2) \o "2\n"
                \o pad(indent) \o "]"
       ELSE IF x.type = "string" THEN "\"" \o x.val \o "\""
       ELSE x.val

\* appendOperationToTextArea(textArea, name, body): the text area's value
\* after the entry is appended.
appendOperationToTextArea(text, name, body) ==
    text \o name \o "\n"
         \o (IF Truthy(body) THEN stringify(body, 0) ELSE "")
         \o "\n=====\n"

\* The callbacks of the nested-callback run.
onLoad == Fn("onLoad")
onSave == Fn("onSave")
onError == Fn("onError")

\* The five calls of a run of the demo, with the two objects it saves.
Steps(saves) ==
    <<[op |-> "load", arguments |-> <<>>],
      [op |-> "save", arguments |-> <<saves[1]>>],
      [op |-> "load", arguments |-> <<>>],
      [op |-> "save", arguments |-> <<saves[2]>>],
      [op |-> "load", arguments |-> <<>>]>>

\* The arguments a run passes at a step: the nested-callback run adds its
\* callback and onError, the promise-chain run passes no callback.
passed(instance, step) ==
    IF instance = "standard"
    THEN step.arguments \o <<IF step.op = "load" THEN onLoad ELSE onSave, onError>>
    ELSE step.arguments

\* Mutant of spread: log is called with the name only.
spreadNone(list, i) == Undefined

\* log(onSettingsLoaded.name, ...settings): the i-th argument the spread
\* list supplies.
spread(list, i) == ArgAt(list, i)

\* The alert element before and after the comparison.
Running == "Running..."
ContentMatches == "Content matches"
ContentDiffers == "Content does not match"

\* The objects the demo saves.
DemoSaves == <<FirstSave, SecondSave>>

\* The demo page before its script runs: per run the number of calls made,
\* the text area, whether done was called and the calls of onError; the
\* alert element; the two values the runs save.
NoRun == [pc |-> 0, text |-> "", done |-> FALSE, errors |-> 0]
NoRuns ==
    [standard |-> NoRun, promisified |-> NoRun, alert |-> Running,
     saves |-> DemoSaves]

\* waitForAll: once both runs called done, the text areas are compared.
compared(page) ==
    IF page.standard.done /\ page.promisified.done
    THEN [page EXCEPT !.alert = IF page.standard.text = page.promisified.text
                                THEN ContentMatches ELSE ContentDiffers]
    ELSE page

\* Fresh managers, nothing called.
FreshManagers ==
    /\ stores = [i \in Instances |-> EmptySettings]
    /\ timers = <<>>
    /\ requests = <<>>
    /\ runs = NoRuns

\* ------------------------------------------------------------- actions
\* Promiseify(target, options) has returned the adapted function; nothing
\* has been called yet.
Init ==
    /\ configured \in {Undefined} \cup Redirectors
    /\ options = [outcomeRedirector |-> configured]
    /\ calls = <<>>
    /\ stack = "idle"
    /\ cur = 0
    /\ microtasks = <<>>
    /\ nfires = 0
    /\ nconts = 0
    /\ window = NoChrome
    /\ CallableAdapted
    /\ FreshManagers

\* A caller invokes the adapted function; the wrapper parses the arguments,
\* builds the promise and enters the original.
AdaptedCall(arguments) ==
    /\ stack = "idle"
    /\ microtasks = <<>>
    /\ Len(calls) < MaxCalls
    /\ calls' = Append(calls, newCall(arguments))
    /\ stack' = "original"
    /\ cur' = Len(calls) + 1
    /\ UNCHANGED <<managers, objects, window, configured, options, microtasks, nfires, nconts>>

\* The original invokes one of the injected handlers of the running turn's
\* call with a result list.  A user handler that throws is either caught by
\* the original or unwinds it.
Fire(which, executionArgs, throws, caught) ==
    /\ stack \in {"original", "timer"}
    /\ nfires < MaxFires
    /\ LET opts == withRedirector(options, which)
           before == calls[cur]
           handler == handlerFor(before, opts, executionArgs)
           fired == [dispatch(before, opts, executionArgs, throws)
                        EXCEPT !.fired = @ + 1]
           unwinds == throws /\ ~caught
           after == IF unwinds /\ stack = "original"
                    THEN originalThrew(fired, HandlerError) ELSE fired
       IN /\ throws => handler # Undefined
          /\ caught => throws
          /\ options' = opts
          /\ calls' = [calls EXCEPT ![cur] = after]
          /\ microtasks' = microtasks \o reactions(cur, before, after)
          /\ stack' = IF ~unwinds THEN stack
                      ELSE IF stack = "original" THEN "caller" ELSE "idle"
          /\ nfires' = nfires + 1
    /\ UNCHANGED <<managers, objects, window, configured, cur, nconts>>

\* The original returns to the executor, the adapted call to its caller.
OriginalReturns ==
    /\ stack = "original"
    /\ calls' = [calls EXCEPT ![cur] = originalReturned(@)]
    /\ stack' = "caller"
    /\ UNCHANGED <<managers, objects, window, configured, options, cur, microtasks, nfires, nconts>>

\* The original throws out of target.apply.
OriginalThrows ==
    /\ stack = "original"
    /\ LET after == originalThrew(calls[cur], OriginalError)
       IN /\ calls' = [calls EXCEPT ![cur] = after]
          /\ microtasks' = microtasks \o reactions(cur, calls[cur], after)
    /\ stack' = "caller"
    /\ UNCHANGED <<managers, objects, window, configured, options, cur, nfires, nconts>>

\* A caller registers a continuation on the promise call c returned, in the
\* turn of the call or in a later turn of its own.
Then(c) ==
    /\ stack \in {"caller", "idle"}
    /\ stack = "idle" => microtasks = <<>>
    /\ nconts < MaxConts
    /\ calls[c].toCaller = "promise"
    /\ calls' = [calls EXCEPT ![c].thens = @ + 1]
    /\ microtasks' = IF calls[c].promise.state = "pending" THEN microtasks
                     ELSE microtasks \o Jobs(c, calls[c].thens + 1, calls[c].thens + 1)
    /\ nconts' = nconts + 1
    /\ UNCHANGED <<managers, objects, window, configured, options, stack, cur, nfires>>

\* The running turn ends: the stack is empty.
EndTurn ==
    /\ stack \in {"caller", "timer"}
    /\ stack' = "idle"
    /\ UNCHANGED <<managers, objects, window, configured, options, calls, cur, microtasks, nfires, nconts>>

\* A completion the original deferred arrives in a turn of its own.
TimerTurn(c) ==
    /\ stack = "idle"
    /\ microtasks = <<>>
    /\ nfires < MaxFires
    /\ stack' = "timer"
    /\ cur' = c
    /\ UNCHANGED <<managers, objects, window, configured, options, calls, microtasks, nfires, nconts>>

\* With the stack empty the oldest reaction job runs its continuation.
RunMicrotask ==
    /\ stack = "idle"
    /\ microtasks # <<>>
    /\ LET job == Head(microtasks)
       IN calls' = [calls EXCEPT ![job.call].ran = Append(@, job.id)]
    /\ microtasks' = Tail(microtasks)
    /\ UNCHANGED <<managers, objects, window, configured, options, stack, cur, nfires, nconts>>

\* What the original does once it has been entered.
Original ==
    \/ \E which \in {"success", "error"}, executionArgs \in Results,
          throws \in BOOLEAN, caught \in BOOLEAN :
            Fire(which, executionArgs, throws, caught)
    \/ OriginalReturns
    \/ OriginalThrows
    \/ EndTurn
    \/ \E c \in 1..Len(calls) : TimerTurn(c)

\* Calls with each configuration of user handlers.
Next ==
    \/ \E arguments \in CallShapes : AdaptedCall(arguments)
    \/ Original

Spec == Init /\ [][Next]_vars

\* One call with every argument list of at most MaxArgs values.
NextArgs ==
    \/ \E arguments \in ArgLists : Len(calls) = 0 /\ AdaptedCall(arguments)
    \/ Original

SpecArgs == Init /\ [][NextArgs]_vars

\* One call whose promise the caller consumes.
NextThen ==
    \/ \E arguments \in CallShapes : Len(calls) = 0 /\ AdaptedCall(arguments)
    \/ Original
    \/ \E c \in 1..Len(calls) : Then(c)
    \/ RunMicrotask

SpecThen == Init /\ [][NextThen]_vars

\* Result lists of an error-first original: nothing, no error and data, an error.
NodeResults == {<<>>, <<Null, Data>>, <<Boom>>}

\* The function was adapted by Promiseify.nodeStyle(target, options), whatever
\* redirector the caller's options carried.
InitNode ==
    /\ configured \in {Undefined} \cup Redirectors
    /\ options = nodeStyle([outcomeRedirector |-> configured])
    /\ calls = <<>>
    /\ stack = "idle"
    /\ cur = 0
    /\ microtasks = <<>>
    /\ nfires = 0
    /\ nconts = 0
    /\ window = NoChrome
    /\ CallableAdapted
    /\ FreshManagers

\* Calls of an error-first original.
NextNode ==
    \/ \E arguments \in CallShapes : AdaptedCall(arguments)
    \/ \E which \in {"success", "error"}, executionArgs \in NodeResults,
          throws \in BOOLEAN, caught \in BOOLEAN :
            Fire(which, executionArgs, throws, caught)
    \/ OriginalReturns
    \/ OriginalThrows
    \/ EndTurn
    \/ \E c \in 1..Len(calls) : TimerTurn(c)

SpecNode == InitNode /\ [][NextNode]_vars

\* What chrome.runtime.lastError holds.
LastErrors == {Undefined, Null, RuntimeError}

\* The function was adapted by Promiseify.chromeRuntimeAPIStyle(target,
\* options), in a page with or without chrome.runtime.
InitChrome ==
    /\ configured \in {Undefined} \cup Redirectors
    /\ options = chromeRuntimeAPIStyle([outcomeRedirector |-> configured])
    /\ calls = <<>>
    /\ stack = "idle"
    /\ cur = 0
    /\ microtasks = <<>>
    /\ nfires = 0
    /\ nconts = 0
    /\ window \in {NoChrome} \cup {[runtime |-> TRUE, lastError |-> Undefined]}
    /\ CallableAdapted
    /\ FreshManagers

\* Between turns the browser sets or clears chrome.runtime.lastError.
SetLastError(error) ==
    /\ stack = "idle"
    /\ window.runtime
    /\ window.lastError # error
    /\ window' = [window EXCEPT !.lastError = error]
    /\ UNCHANGED <<managers, objects, configured, options, calls, stack, cur, microtasks, nfires, nconts>>

\* One call of a chrome API function, the browser moving lastError.
NextChrome ==
    \/ \E arguments \in CallShapes : Len(calls) = 0 /\ AdaptedCall(arguments)
    \/ Original
    \/ \E error \in LastErrors : SetLastError(error)

SpecChrome == InitChrome /\ [][NextChrome]_vars

\* A caller is about to hand a target and options to Promiseify.
InitObject ==
    /\ configured = Undefined
    /\ options = [outcomeRedirector |-> configured]
    /\ calls = <<>>
    /\ stack = "idle"
    /\ cur = 0
    /\ microtasks = <<>>
    /\ nfires = 0
    /\ nconts = 0
    /\ window = NoChrome
    /\ \E t \in Targets : target = t.value /\ heap = t.heap
    /\ selectors \in [only : Selectors, include : Selectors, exclude : Selectors]
    /\ result = NotRun
    /\ lastInvoke = NotInvoked
    /\ FreshManagers

\* Promiseify(target, options).
Adapt ==
    /\ result = NotRun
    /\ LET done == doPromiseify(heap, target, selectors)
       IN /\ result' = done.result
          /\ heap' = done.heap
    /\ UNCHANGED <<managers, configured, options, calls, stack, cur, microtasks, nfires,
                   nconts, window, target, selectors, lastInvoke>>

\* The ways a caller invokes a member: on the object, detached from it, or
\* with another instance as the receiver.
Receivers == {"target", "undefined", "sibling"}

\* A caller invokes a member of the object Promiseify returned.
InvokeMember(name, receiver) ==
    /\ result.outcome = "returned"
    /\ result.address = "target"
    /\ lastInvoke = NotInvoked
    /\ LET fn == Get(heap, "target", name)
       IN /\ isFunction(fn)
          /\ lastInvoke' = [name |-> name, receiver |-> receiver,
                            this |-> boundThis(fn, receiver),
                            adapted |-> fn.wraps > 0]
    /\ UNCHANGED <<managers, configured, options, calls, stack, cur, microtasks, nfires,
                   nconts, window, target, selectors, heap, result>>

\* Adapting one target, then invoking one member.
NextObject ==
    \/ Adapt
    \/ \E name \in OptionNames, receiver \in Receivers : InvokeMember(name, receiver)

SpecObject == InitObject /\ [][NextObject]_vars

\* The entry points of the adapter.
Presets == {"Promiseify", "nodeStyle", "chromeRuntimeAPIStyle"}

\* What adapting through an entry point does to the options record handed in.
adaptedThrough(preset, opts) ==
    CASE preset = "nodeStyle" -> nodeStyle(opts)
      [] preset = "chromeRuntimeAPIStyle" -> chromeRuntimeAPIStyle(opts)
      [] OTHER -> opts

\* Target A was adapted through an entry point with the caller's options
\* record o; configured is the redirector in o when that adaptation returned.
InitShared ==
    /\ \E preset \in Presets, redirector \in {Undefined} \cup Redirectors :
            options = adaptedThrough(preset, [outcomeRedirector |-> redirector])
    /\ configured = options.outcomeRedirector
    /\ calls = <<>>
    /\ stack = "idle"
    /\ cur = 0
    /\ microtasks = <<>>
    /\ nfires = 0
    /\ nconts = 0
    /\ window = NoChrome
    /\ CallableAdapted
    /\ FreshManagers

\* The caller adapts another target B through an entry point, handing in the
\* same options record o.
AdaptOther(preset) ==
    /\ stack = "idle"
    /\ options' = adaptedThrough(preset, options)
    /\ options' # options
    /\ UNCHANGED <<managers, objects, window, configured, calls, stack, cur, microtasks,
                   nfires, nconts>>

\* Calls on A, and adaptations of other targets with A's options record.
NextShared ==
    \/ \E arguments \in CallShapes : AdaptedCall(arguments)
    \/ Original
    \/ \E preset \in Presets : AdaptOther(preset)

SpecShared == InitShared /\ [][NextShared]_vars

\* A plain manager, or one handed to Promiseify with no options: nothing
\* has been called yet.
InitManager ==
    /\ configured = Undefined
    /\ options = [outcomeRedirector |-> configured]
    /\ calls = <<>>
    /\ stack = "idle"
    /\ cur = 0
    /\ microtasks = <<>>
    /\ nfires = 0
    /\ nconts = 0
    /\ window = NoChrome
    /\ CallableAdapted
    /\ FreshManagers

\* The stores, timers and requests of the managers.
World == [stores |-> stores, timers |-> timers, requests |-> requests]

\* The managers after a method of one is called.  On the plain manager the
\* method gets the caller's arguments, on the adapted one the wrapper's.
called(w, instance, op, arguments) ==
    LET request == Len(w.requests) + 1
        done == effect(op, request, w.stores[instance], received(instance, arguments))
    IN [stores |-> [w.stores EXCEPT ![instance] = done.settings],
        timers |-> w.timers \o done.timers,
        requests |-> Append(w.requests,
            Request(instance, op,
                    IF op = "save" THEN ArgAt(arguments, 1) ELSE NoSetting,
                    w.timers = <<>>))]

\* A caller calls a method of a manager.
ManagerCall(instance, op, arguments) ==
    /\ Len(requests) < MaxRequests
    /\ LET after == called(World, instance, op, arguments)
       IN /\ requests' = after.requests
          /\ stores' = after.stores
          /\ timers' = after.timers
    /\ UNCHANGED <<objects, window, configured, options, calls, stack, cur,
                   microtasks, nfires, nconts, runs>>

\* The sequence without its j-th element.
Without(list, j) == SubSeq(list, 1, j - 1) \o SubSeq(list, j + 1, Len(list))

\* The injected handler fn fired for a request of the adapted manager.
slotOf(fn) == IF fn = onSuccessPromiseified THEN "success" ELSE "error"

\* The request after one of its callbacks was invoked: the invocation is
\* recorded, and an injected handler settles the promise as the redirector
\* in opts decides.
deliver(request, opts, fn, args) ==
    LET noted == [request EXCEPT !.delivered = Append(@, [fn |-> fn, args |-> args])]
    IN IF fn \in {onSuccessPromiseified, onErrorPromiseified}
       THEN [noted EXCEPT !.promise =
                IF verdict(opts, args) THEN resolve(@, args) ELSE reject(@, args)]
       ELSE noted

\* Timer j is the oldest timer of its manager.
oldest(j) ==
    /\ j \in DOMAIN timers
    /\ \A k \in 1..(j - 1) :
        requests[timers[k].request].instance # requests[timers[j].request].instance

\* The options after timer j ran: an injected handler stores its default
\* redirector when none is set.
optionsAfter(j) ==
    IF timers[j].kind = "callback"
       /\ timers[j].fn \in {onSuccessPromiseified, onErrorPromiseified}
    THEN withRedirector(options, slotOf(timers[j].fn)) ELSE options

\* The managers after timer j ran: backingStore.clear empties the store and
\* sets a timer for its callback; a callback is invoked with its arguments.
ran(w, opts, j) ==
    LET timer == w.timers[j]
        instance == w.requests[timer.request].instance
    IN IF timer.kind = "clear"
       THEN [stores |-> [w.stores EXCEPT ![instance] = EmptySettings],
             timers |-> Without(w.timers, j)
                        \o executeAsync(timer.request, timer.fn, <<EmptySettings>>),
             requests |-> w.requests]
       ELSE [stores |-> w.stores,
             timers |-> Without(w.timers, j),
             requests |-> IF isFunction(timer.fn)
                          THEN [w.requests EXCEPT ![timer.request] =
                                    deliver(@, opts, timer.fn, timer.args)]
                          ELSE w.requests]

\* The oldest timer of a manager runs.
RunTimer(j) ==
    /\ oldest(j)
    /\ LET after == ran(World, optionsAfter(j), j)
       IN /\ stores' = after.stores
          /\ timers' = after.timers
          /\ requests' = after.requests
          /\ options' = optionsAfter(j)
    /\ UNCHANGED <<objects, window, configured, calls, stack, cur, microtasks,
                   nfires, nconts, runs>>

\* The calls a caller makes on the plain manager, with both callbacks.
PlainCalls ==
    {[op |-> "load", arguments |-> <<onOk, onFail>>],
     [op |-> "clear", arguments |-> <<onOk, onFail>>]}
    \cup {[op |-> "save", arguments |-> <<x, onOk, onFail>>] : x \in SaveValues}

\* Calls on the plain manager and the timers they set.
NextManager ==
    \/ \E call \in PlainCalls : ManagerCall("standard", call.op, call.arguments)
    \/ \E j \in 1..MaxRequests : RunTimer(j)

SpecManager == InitManager /\ [][NextManager]_vars

\* The calls the demo's kind of caller makes on the adapted manager: no
\* callbacks, the promise is used instead.
PromiseCalls ==
    {[op |-> "load", arguments |-> <<>>],
     [op |-> "clear", arguments |-> <<>>]}
    \cup {[op |-> "save", arguments |-> <<x>>] : x \in SaveValues}

\* Calls on the manager handed to Promiseify and the timers they set.
NextAdapted ==
    \/ \E call \in PromiseCalls : ManagerCall("promisified", call.op, call.arguments)
    \/ \E j \in 1..MaxRequests : RunTimer(j)

SpecAdapted == InitManager /\ [][NextAdapted]_vars

\* The demo page loaded, its script not yet run.  The two values the runs
\* save are any the manager may be given; the demo's are among them.
InitDemo ==
    /\ configured = Undefined
    /\ options = [outcomeRedirector |-> configured]
    /\ calls = <<>>
    /\ stack = "idle"
    /\ cur = 0
    /\ microtasks = <<>>
    /\ nfires = 0
    /\ nconts = 0
    /\ window = NoChrome
    /\ CallableAdapted
    /\ stores = [i \in Instances |-> EmptySettings]
    /\ timers = <<>>
    /\ requests = <<>>
    /\ runs \in {[NoRuns EXCEPT !.saves = <<a, b>>] : a \in SaveValues, b \in SaveValues}

\* The script of the page runs: the nested-callback run makes its first
\* call on the plain manager, then the promise-chain run its first call on
\* the adapted one.
DemoStart ==
    /\ runs.standard.pc = 0
    /\ LET first_ == Steps(runs.saves)[1]
           one == called(World, "standard", first_.op, passed("standard", first_))
           both == called(one, "promisified", first_.op, passed("promisified", first_))
       IN /\ stores' = both.stores
          /\ timers' = both.timers
          /\ requests' = both.requests
    /\ runs' = [runs EXCEPT !.standard.pc = 1, !.promisified.pc = 1]
    /\ UNCHANGED <<objects, window, configured, options, calls, stack, cur,
                   microtasks, nfires, nconts>>

\* The page after a run was answered.  A failure calls onError: the nested
\* run stops there, the chain goes on to done.  A success is logged, and the
\* run makes its next call or, after the last, calls done.
answered(page, instance, op, body, failed, more) ==
    LET name == IF op = "load" THEN "onSettingsLoaded" ELSE "onSettingsSaved"
        logged == IF op = "load" THEN body ELSE Undefined
        run == page[instance]
        then == [run EXCEPT
                    !.text = IF failed THEN @
                             ELSE appendOperationToTextArea(@, name, logged),
                    !.errors = IF failed THEN @ + 1 ELSE @,
                    !.pc = IF more THEN @ + 1 ELSE @,
                    !.done = IF failed THEN instance = "promisified" ELSE ~more]
    IN compared([page EXCEPT ![instance] = then])

\* What the run that timer j answers logs, given the managers after the
\* timer ran: the callback's first argument, or the first element of the
\* list the promise was fulfilled with.
logBody(after, j) ==
    IF requests[timers[j].request].instance = "standard"
    THEN ArgAt(timers[j].args, 1)
    ELSE spread(after.requests[timers[j].request].promise.value.items, 1)

\* Whether the answer of timer j is a failure: onError was called, or the
\* promise was rejected.
failedAt(after, j) ==
    IF requests[timers[j].request].instance = "standard"
    THEN timers[j].fn = onError
    ELSE after.requests[timers[j].request].promise.state = "rejected"

\* A timer of a run of the demo fires, and the microtasks it queues run: the
\* callback or the chain logs the answer and makes the next call.
DemoTimer(j) ==
    /\ oldest(j)
    /\ \E after \in {ran(World, optionsAfter(j), j)} :
       \E body \in {logBody(after, j)} :
        LET instance == requests[timers[j].request].instance
            failed == failedAt(after, j)
            more == ~failed /\ runs[instance].pc < Len(Steps(runs.saves))
            next == Steps(runs.saves)[runs[instance].pc + 1]
        IN \E world \in {IF more
                         THEN called(after, instance, next.op, passed(instance, next))
                         ELSE after} :
            /\ stores' = world.stores
            /\ timers' = world.timers
            /\ requests' = world.requests
            /\ options' = optionsAfter(j)
            /\ runs' = answered(runs, instance, requests[timers[j].request].op,
                                body, failed, more)
    /\ UNCHANGED <<objects, window, configured, calls, stack, cur, microtasks,
                   nfires, nconts>>

\* The demo: its script, then the timers of the two runs in any order.
NextDemo ==
    \/ DemoStart
    \/ \E j \in 1..Cardinality(Instances) : DemoTimer(j)

SpecDemo == InitDemo /\ [][NextDemo]_vars

\* The demo as the page runs it: its own two saves, and every timer that
\* was set eventually firing.
InitDemoScript == InitDemo /\ runs.saves = DemoSaves

SpecDemoFair == InitDemoScript /\ [][NextDemo]_vars /\ WF_vars(NextDemo)

\* ------------------------------------------------------------- claims
\* The firing invoked this user handler and no other.
InvokedOnlySuccess(before, after) ==
    /\ isFunction(before.successHandler) => after.okCalls = before.okCalls + 1
    /\ after.failCalls = before.failCalls

InvokedOnlyFailure(before, after) ==
    /\ isFunction(before.failureHandler) => after.failCalls = before.failCalls + 1
    /\ after.okCalls = before.okCalls

Fulfilled(list) == [state |-> "fulfilled", value |-> ListValue(list)]
Rejected(list) == [state |-> "rejected", value |-> ListValue(list)]

\* C1: with no outcomeRedirector configured, in every call of every sequence
\* of calls, a firing of the injected error handler invokes the user's failure
\* handler (not the success handler) and rejects the deferred value, and a
\* firing of the injected success handler invokes the user's success handler
\* and fulfills it, whatever the payload.  (The deferred value is looked at
\* where the firing is the one that may settle it: it was pending and the
\* user handler returned.)
C1_DefaultFollowsFiredHandler ==
    [][configured = Undefined =>
        \A executionArgs \in Results, throws \in BOOLEAN, caught \in BOOLEAN :
            /\ Fire("error", executionArgs, throws, caught) =>
                /\ InvokedOnlyFailure(calls[cur], calls'[cur])
                /\ (calls[cur].promise.state = "pending" /\ ~throws)
                      => calls'[cur].promise = Rejected(executionArgs)
            /\ Fire("success", executionArgs, throws, caught) =>
                /\ InvokedOnlySuccess(calls[cur], calls'[cur])
                /\ (calls[cur].promise.state = "pending" /\ ~throws)
                      => calls'[cur].promise = Fulfilled(executionArgs)]_vars

\* The step, when it is the first firing of a call's injected handlers,
\* invokes the user handler the configured redirector selects and settles the
\* deferred value accordingly.
FirstFiringFollowsRedirector ==
    \A which \in {"success", "error"}, executionArgs \in Results,
       throws \in BOOLEAN, caught \in BOOLEAN :
        (Fire(which, executionArgs, throws, caught) /\ calls[cur].fired = 0) =>
            IF Truthy(Apply(configured, executionArgs))
            THEN /\ InvokedOnlySuccess(calls[cur], calls'[cur])
                 /\ calls'[cur].promise = Fulfilled(executionArgs)
            ELSE /\ InvokedOnlyFailure(calls[cur], calls'[cur])
                 /\ calls'[cur].promise = Rejected(executionArgs)

\* C2: for a configured outcomeRedirector p and a result list R with which the
\* original first fires either injected handler: if p(R) is truthy the user's
\* success handler (if supplied) is invoked with R and the deferred value is
\* fulfilled with the list R, otherwise the user's failure handler (if
\* supplied) is invoked with R and the deferred value is rejected with the
\* list R; the other user handler is not invoked.
C2_RedirectorDecides ==
    [][(configured \in Redirectors) => FirstFiringFollowsRedirector]_vars

\* C3 as claimed: whenever the original threw during an adapted call, also
\* after firing an injected handler, the call returned a deferred value and
\* that value is rejected with the thrown error.
C3_ThrowAlwaysRejects ==
    \A c \in 1..Len(calls) :
        calls[c].phase = "threw" =>
            /\ calls[c].toCaller = "promise"
            /\ calls[c].promise = [state |-> "rejected",
                                   value |-> ThrownValue(calls[c].thrown)]

\* The step, when it ends the original's run for call c.
ThrowHandled(c) ==
    (calls[c].phase = "running" /\ calls'[c].phase # "running") =>
        /\ calls'[c].toCaller = "promise"
        /\ calls'[c].phase = "threw" =>
            /\ calls'[c].thrown \in {OriginalError, HandlerError}
            /\ calls'[c].promise =
                 IF calls[c].promise.state = "pending"
                 THEN [state |-> "rejected", value |-> ThrownValue(calls'[c].thrown)]
                 ELSE calls[c].promise

\* C3 as amended: the step in which the original throws hands the caller a
\* deferred value, never the exception; a deferred value still pending at the
\* throw is rejected with the thrown error, one that an earlier firing settled
\* keeps that settlement.
C3_ThrowRejectsIfPending == [][\A c \in 1..Len(calls) : ThrowHandled(c)]_vars

\* C3 witness: the original fired an injected handler, which fulfilled the
\* deferred value, and then threw.
C3_Witness ==
    \E c \in 1..Len(calls) :
        /\ calls[c].phase = "threw"
        /\ calls[c].thrown = OriginalError
        /\ calls[c].fired > 0
        /\ calls[c].promise.state = "fulfilled"
        /\ calls[c].toCaller = "promise"

\* C4: once the deferred value of a call is fulfilled or rejected, no step (a
\* later firing of either injected handler with any payload, a later throw)
\* changes its state or the values it carries.
C4_SettledOnce ==
    [][\A c \in 1..Len(calls) :
        calls[c].promise.state # "pending" => calls'[c].promise = calls[c].promise]_vars

\* C4 witness: a deferred value settled by the first of two firings, with the
\* original throwing after them.
C4_Witness ==
    \E c \in 1..Len(calls) :
        /\ calls[c].fired = 2
        /\ ~isFunction(calls[c].successHandler)
        /\ calls[c].phase = "threw"
        /\ calls[c].promise.state = "fulfilled"

\* What the original received, given the arguments that were forwarded.
Received(forwarded) == forwarded \o <<onSuccessPromiseified, onErrorPromiseified>>

\* C5: called with N >= 2 arguments whose last two are callable, the adapted
\* function takes the second-to-last as the user's success handler and the
\* last as the failure handler, and the original receives the first N-2
\* arguments, in order, followed by the two injected handlers.
C5_LastTwoCallable ==
    \A c \in 1..Len(calls) :
        LET A == calls[c].arguments
            n == Len(A)
        IN (n >= 2 /\ isFunction(A[n]) /\ isFunction(A[n - 1])) =>
            /\ calls[c].successHandler = A[n - 1]
            /\ calls[c].failureHandler = A[n]
            /\ calls[c].executionArguments = Received(SubSeq(A, 1, n - 2))
            /\ Len(calls[c].executionArguments) = n

\* C5 witness: three arguments, the last two callable; the original was
\* entered and its failure firing reached the last argument's handler.
C5_Witness ==
    \E c \in 1..Len(calls) :
        /\ calls[c].arguments = <<Data, onOk, onFail>>
        /\ calls[c].invocations = 1
        /\ calls[c].failCalls = 1
        /\ calls[c].promise.state = "rejected"

\* C6: called with N >= 2 arguments of which the last is callable and the
\* second-to-last is not, the adapted function takes the last as the user's
\* success handler, assumes no failure handler, and the original receives the
\* first N-1 arguments, in order, followed by the two injected handlers.
C6_OnlyLastCallable ==
    \A c \in 1..Len(calls) :
        LET A == calls[c].arguments
            n == Len(A)
        IN (n >= 2 /\ isFunction(A[n]) /\ ~isFunction(A[n - 1])) =>
            /\ calls[c].successHandler = A[n]
            /\ calls[c].failureHandler = Undefined
            /\ calls[c].executionArguments = Received(SubSeq(A, 1, n - 1))

\* C6 witness: a callable after a plain argument; the original was entered
\* and a success firing reached the handler.
C6_Witness ==
    \E c \in 1..Len(calls) :
        /\ calls[c].arguments = <<onOk, Data, onFail>>
        /\ calls[c].invocations = 1
        /\ calls[c].okCalls = 1
        /\ calls[c].promise.state = "fulfilled"

\* C7: called with exactly one argument, a callable, the adapted function
\* takes it as the user's success handler, assumes no failure handler, and
\* the original's argument list is exactly the two injected handlers.
C7_SingleCallable ==
    \A c \in 1..Len(calls) :
        LET A == calls[c].arguments
        IN (Len(A) = 1 /\ isFunction(A[1])) =>
            /\ calls[c].successHandler = A[1]
            /\ calls[c].failureHandler = Undefined
            /\ calls[c].executionArguments = <<onSuccessPromiseified, onErrorPromiseified>>

\* C7 witness: the single argument is a callable and a success firing
\* invoked it.
C7_Witness ==
    \E c \in 1..Len(calls) :
        /\ calls[c].arguments = <<onFail>>
        /\ calls[c].invocations = 1
        /\ calls[c].okCalls = 1

\* C8: called with an argument list that is empty or whose last element is
\* not callable, the adapted function assumes no user handler and the
\* original receives the list unchanged followed by exactly two injected
\* arguments, both callable.
C8_NoTrailingCallable ==
    \A c \in 1..Len(calls) :
        LET A == calls[c].arguments
            n == Len(A)
            E == calls[c].executionArguments
        IN (n = 0 \/ ~isFunction(A[n])) =>
            /\ calls[c].successHandler = Undefined
            /\ calls[c].failureHandler = Undefined
            /\ Len(E) = n + 2
            /\ SubSeq(E, 1, n) = A
            /\ isFunction(E[n + 1]) /\ isFunction(E[n + 2])
            /\ E[n + 1] = onSuccessPromiseified /\ E[n + 2] = onErrorPromiseified

\* C8 witness: a callable second-to-last and a plain value last; the
\* original was entered, fired, and no user handler was invoked.
C8_Witness ==
    \E c \in 1..Len(calls) :
        /\ calls[c].arguments = <<Data, onOk, Data>>
        /\ calls[c].invocations = 1
        /\ calls[c].fired = 2
        /\ calls[c].okCalls = 0 /\ calls[c].failCalls = 0

\* C9: each adapted call invokes the original exactly once, within the call
\* itself: from the moment the call exists until it has returned, and in
\* every later state whatever the outcome, the original has been invoked once
\* for it; the caller holds nothing exactly while that invocation runs.
C9_OriginalInvokedOnce ==
    \A c \in 1..Len(calls) :
        /\ calls[c].invocations = 1
        /\ calls[c].toCaller = "nothing" <=> calls[c].phase = "running"
        /\ calls[c].phase = "running" => (stack = "original" /\ cur = c)

\* C9 witness: a call that returned, was rejected by a firing in a later turn
\* and whose original has been invoked once.
C9_Witness ==
    \E c \in 1..Len(calls) :
        /\ calls[c].phase = "returned"
        /\ calls[c].promise.state = "rejected"
        /\ calls[c].failCalls = 1
        /\ stack = "idle"
        /\ calls[c].invocations = 1

\* The user handler matching the settlement a firing made was invoked.
HandlerWentFirst(call) ==
    /\ (call.promise.state = "fulfilled" /\ isFunction(call.successHandler))
          => call.okCalls >= 1
    /\ (call.promise.state = "rejected" /\ call.promise.value.kind = "array"
        /\ isFunction(call.failureHandler))
          => call.failCalls >= 1

\* The step, when it runs a continuation of call c.
ContinuationInOrder(c) ==
    calls'[c].ran # calls[c].ran =>
        /\ stack = "idle" /\ stack' = "idle"
        /\ calls[c].promise.state # "pending"
        /\ calls'[c].ran = Append(calls[c].ran, Len(calls[c].ran) + 1)
        /\ HandlerWentFirst(calls[c])

\* The step, when it ends the original's run for call c, gives the caller a
\* deferred value whatever handlers were passed.
ReturnsDeferred(c) ==
    (calls[c].phase = "running" /\ calls'[c].phase # "running")
        => calls'[c].toCaller = "promise"

\* C10: every invocation of the adapted function returns a deferred value,
\* with zero, one or two user handlers.  A continuation registered on it runs
\* only with the stack empty, after the turn that settled the value has
\* finished and so after the user handler that firing invoked; continuations
\* run in the order in which they were registered.
C10_HandlerThenContinuations ==
    [][\A c \in 1..Len(calls) : ReturnsDeferred(c) /\ ContinuationInOrder(c)]_vars

\* C10 witness: a success handler was passed and invoked, the deferred value
\* is fulfilled, and two continuations registered on it have run.
C10_Witness ==
    \E c \in 1..Len(calls) :
        /\ isFunction(calls[c].successHandler)
        /\ calls[c].okCalls = 1
        /\ calls[c].promise.state = "fulfilled"
        /\ calls[c].ran = <<1, 2>>

\* What a firing does to a call when no other call was ever made on the
\* adapted function: the options are still as the caller configured them.
AloneFiring(call, which, executionArgs, throws) ==
    dispatch(call, withRedirector([outcomeRedirector |-> configured], which),
             executionArgs, throws)

\* The step, when it is a firing, touches only the call it belongs to, and
\* when it is that call's first firing it has the outcome the call would have
\* had alone.
FiringIsLocal ==
    \A which \in {"success", "error"}, executionArgs \in Results,
       throws \in BOOLEAN, caught \in BOOLEAN :
        Fire(which, executionArgs, throws, caught) =>
            /\ \A d \in 1..Len(calls) : d # cur => calls'[d] = calls[d]
            /\ calls[cur].fired = 0 =>
                LET alone == AloneFiring(calls[cur], which, executionArgs, throws)
                IN /\ calls'[cur].okCalls = alone.okCalls
                   /\ calls'[cur].failCalls = alone.failCalls
                   /\ ~throws => calls'[cur].promise = alone.promise

\* C11: two invocations of the adapted function have two deferred values
\* that settle independently: a firing for one call settles only that call's
\* value and invokes only that call's handlers, and the outcome of each call
\* is what it would have been had the other call not been made.
C11_CallsIndependent == [][FiringIsLocal]_vars

\* C12: the deferred value of a call is pending in every state in which
\* neither injected handler of the call has fired and the original has not
\* thrown, however many turns have passed and whatever other calls did.
C12_PendingUntilFired ==
    \A c \in 1..Len(calls) :
        (calls[c].fired = 0 /\ calls[c].phase # "threw") => calls[c].promise = Pending

\* C12 witness: the original of the first call returned without firing; a
\* second call was made and settled in a later turn; the first is still
\* pending with the stack empty.
C12_Witness ==
    /\ Len(calls) = 2
    /\ stack = "idle"
    /\ calls[1].phase = "returned" /\ calls[1].fired = 0
    /\ calls[1].promise = Pending
    /\ calls[2].phase = "returned" /\ calls[2].promise.state = "fulfilled"

\* A firing on a pending promise leaves it fulfilled with the result list when
\* the first result argument is falsy or absent, rejected with it otherwise.
SettlesByFirstArgument(executionArgs) ==
    calls[cur].promise = Pending =>
        IF Truthy(ArgAt(executionArgs, 1))
        THEN calls'[cur].promise = reject(Pending, executionArgs)
        ELSE calls'[cur].promise = resolve(Pending, executionArgs)

\* C13: under the error-first preset, in every call, a firing of either
\* injected handler with a falsy or absent first result argument fulfils the
\* deferred value, and a firing with a truthy first argument rejects it with
\* the full result list.
C13_ErrorFirstSettles ==
    [][\A which \in {"success", "error"}, executionArgs \in NodeResults,
          throws \in BOOLEAN, caught \in BOOLEAN :
            Fire(which, executionArgs, throws, caught)
                => SettlesByFirstArgument(executionArgs)]_vars

\* The same for firings whose user handler returns.
ErrorFirstSettlesUnlessHandlerThrows ==
    [][\A which \in {"success", "error"}, executionArgs \in NodeResults,
          caught \in BOOLEAN :
            Fire(which, executionArgs, FALSE, caught)
                => SettlesByFirstArgument(executionArgs)]_vars

\* chrome.runtime.lastError is absent or null, or there is no chrome.runtime.
SlotClear == ~window.runtime \/ window.lastError \in {Undefined, Null}

\* A firing on a pending promise leaves it fulfilled with the result list when
\* the slot is clear as the handler fires, rejected with it otherwise.
SettlesBySlot(executionArgs) ==
    calls[cur].promise = Pending =>
        IF SlotClear
        THEN calls'[cur].promise = resolve(Pending, executionArgs)
        ELSE calls'[cur].promise = reject(Pending, executionArgs)

\* C20: under the global-last-error preset the outcome of a call is decided
\* by the ambient error slot as it is when the injected handler fires,
\* whichever handler fires: fulfilled iff the slot is absent or null then,
\* rejected otherwise, and always fulfilled without the slot's namespace.
C20_SlotAtFiringSettles ==
    [][\A which \in {"success", "error"}, executionArgs \in Results,
          throws \in BOOLEAN, caught \in BOOLEAN :
            Fire(which, executionArgs, throws, caught)
                => SettlesBySlot(executionArgs)]_vars

\* The same for firings whose user handler returns.
SlotAtFiringSettlesUnlessHandlerThrows ==
    [][\A which \in {"success", "error"}, executionArgs \in Results,
          caught \in BOOLEAN :
            Fire(which, executionArgs, FALSE, caught)
                => SettlesBySlot(executionArgs)]_vars

\* The slot was clear when the call was made and set when the handler fired:
\* the call is rejected.
SlotMovedBeforeFiring ==
    /\ Len(calls) = 1
    /\ window.runtime /\ window.lastError = RuntimeError
    /\ calls[1].fired = 1
    /\ calls[1].promise.state = "rejected"

\* The names of the model as a set.
Names == {NameOrder[i] : i \in DOMAIN NameOrder}

\* The target is an object with members: not null, not a primitive.
HasMembers(t) == isObject(t) /\ t # NullTarget

\* The step replaced exactly the members of the target named in S by
\* wrappers bound to the target, and left every other member as it was.
ReplacedExactly(S) ==
    \A name \in Names :
        LET before == Get(heap, "target", name)
            after == Get(heap', "target", name)
        IN IF name \in S
           THEN after = promiseified(before, "target") /\ after # before
           ELSE after = before

\* The names of a list whose member of the target is callable.
CallableOf(list) ==
    {name \in Names : Includes(list, name) /\ isFunction(Get(heap, "target", name))}

\* C14: with option only, adaptation replaces exactly the members named in
\* only whose value is callable by new wrappers; every other member keeps
\* its reference or value, whatever include and exclude list, and a name in
\* both only and exclude is adapted.
C14_OnlyReplacesExactlyListed ==
    [][(Adapt /\ HasMembers(target) /\ selectors.only.given)
        => ReplacedExactly(CallableOf(selectors.only.names))]_vars

\* C14 witness: only lists save and a non-callable member, exclude lists
\* save, include lists load; save was wrapped, load and backingStore kept.
C14_Witness ==
    /\ result.outcome = "returned"
    /\ heap["proto"].own = ClassOwn
    /\ selectors.only = Listed(<<"backingStore", "save">>)
    /\ selectors.exclude = Listed(<<"save">>)
    /\ selectors.include = Listed(<<"load">>)
    /\ Get(heap, "target", "save") = promiseified(Method("save"), "target")
    /\ Get(heap, "target", "load") = Method("load")
    /\ Get(heap, "target", "backingStore") = Store

\* The names of a list as a set.
Range(list) == {list[i] : i \in DOMAIN list}

\* C15: without only, adaptation replaces exactly the callable members named
\* in include when include is given, otherwise the enumerated callable
\* members, in both cases less every name in exclude; an excluded member
\* keeps its reference also when include lists it.
C15_IncludeMinusExclude ==
    [][(Adapt /\ HasMembers(target) /\ ~selectors.only.given)
        => ReplacedExactly(
            (IF selectors.include.given
             THEN CallableOf(selectors.include.names)
             ELSE CallableOf(getAllFunctionNames(heap, target)))
            \ Range(selectors.exclude.names))]_vars

\* C15 witness: include lists load and save, exclude lists save; load was
\* wrapped and save kept.
C15_Witness ==
    /\ result.outcome = "returned"
    /\ heap["proto"].own = ClassOwn
    /\ ~selectors.only.given
    /\ selectors.include = Listed(<<"load", "save">>)
    /\ selectors.exclude = Listed(<<"save">>)
    /\ Get(heap, "target", "load") = promiseified(Method("load"), "target")
    /\ Get(heap, "target", "save") = Method("save")

\* The objects of the target's chain below Object.prototype.
RECURSIVE ChainBelowBase(_, _)
ChainBelowBase(h, id) ==
    IF id = "base" \/ id = "none" THEN {}
    ELSE {id} \cup ChainBelowBase(h, h[id].proto)

\* The names the target or an ancestor below the base type defines with a
\* callable value.  The constructor link every prototype carries is counted
\* with the base type's members.
DefinedCallable(h) ==
    {name \in Names \ {"constructor"} :
        \E id \in ChainBelowBase(h, "target") :
            \E i \in DOMAIN h[id].own :
                h[id].own[i].name = name /\ isFunction(h[id].own[i].value)}

\* C16: getAllFunctionNames, and so adaptation with no options, selects
\* every name the target or an ancestor below the base type defines with a
\* callable value, whatever the name (also toString), each once, in
\* lexicographic order, and no name of a non-callable member.
C16_EnumeratesDefinedCallables ==
    [][(Adapt /\ target = RecordTarget /\ selectors = NoSelectors)
        => LET names == getAllFunctionNames(heap, target)
           IN /\ Range(names) = DefinedCallable(heap)
              /\ \A i \in 1..(Len(names) - 1) : Rank(names[i]) < Rank(names[i + 1])
              /\ \A name \in Range(names) :
                    isFunction(Get(heap, "target", name))
                        => Get(heap', "target", name).wraps = 1]_vars

\* C17: an adapted method applies the original with `this` bound to the
\* object that was handed to Promiseify, whether it is called as a member
\* of the object, detached from it, or with another receiver.
C17_ThisIsTarget == lastInvoke.adapted => lastInvoke.this = "target"

\* C17 witness: the adapted save was invoked with another instance as the
\* receiver.
C17_Witness ==
    /\ lastInvoke.adapted
    /\ lastInvoke.name = "save"
    /\ lastInvoke.receiver = "sibling"

\* The member is an own member of the target.
IsOwn(h, name) == \E i \in DOMAIN h["target"].own : h["target"].own[i].name = name

\* C18: Promiseify applied to an object returns that very object, its
\* selected method slots overwritten in place; applied to a callable it
\* returns a wrapper and leaves the callable as it was.
C18_SameObjectReturned ==
    [][Adapt =>
        /\ HasMembers(target) =>
            /\ result' = Returned(target, "target")
            /\ \A name \in CallableOf(targetFunctions(heap, target, selectors)) :
                /\ IsOwn(heap', name)
                /\ Get(heap', "target", name).wraps > 0
        /\ isFunction(target) =>
            /\ result' = Returned(promiseified(target, "null"), "none")
            /\ result'.value # target
            /\ target' = target /\ heap' = heap]_vars

\* C18 witness: Promiseify returned the instance it was handed, whose load
\* and save are now own members holding wrappers.
C18_Witness ==
    /\ result = Returned(RecordTarget, "target")
    /\ heap["proto"].own = ClassOwn
    /\ IsOwn(heap, "load") /\ Get(heap, "target", "load").wraps = 1
    /\ IsOwn(heap, "save") /\ Get(heap, "target", "save").wraps = 1

\* isRecord of the specification: an object that is neither null nor an array.
isRecord(t) == isObject(t) /\ t # NullTarget /\ t # ArrayTarget

\* C19: for a target that is neither callable nor a record (null, undefined,
\* a number, a string, a boolean, an array) and for every options record,
\* Promiseify throws an error naming the target's type and returns nothing.
C19_RejectsNonRecords ==
    [][(Adapt /\ ~isFunction(target) /\ ~isRecord(target))
        => /\ result'.outcome = "threw"
           /\ result'.thrown.message = CannotPromiseify(getType(target)).message
           /\ heap' = heap]_vars

\* For primitives that are not objects to typeof the throw is as claimed.
PrimitivesRejected ==
    [][(Adapt /\ ~isFunction(target) /\ ~isObject(target))
        => /\ result' = Threw(CannotPromiseify(getType(target)))
           /\ heap' = heap]_vars

\* The call was made with a success and a failure handler.
HasBothHandlers(call) ==
    isFunction(call.successHandler) /\ isFunction(call.failureHandler)

\* C23: for a call made with both handlers the callback path and the promise
\* path report one outcome: the user's handlers are invoked at most once in
\* total, the success handler only when the deferred value is fulfilled and
\* the failure handler only when it is rejected, whatever the original does.
C23_PathsAgree ==
    \A c \in 1..Len(calls) :
        HasBothHandlers(calls[c]) =>
            /\ calls[c].okCalls + calls[c].failCalls <= 1
            /\ calls[c].okCalls > 0 => calls[c].promise.state = "fulfilled"
            /\ calls[c].failCalls > 0 => calls[c].promise.state = "rejected"

\* C28: the settlement follows the redirector's verdict on the result list
\* alone: a firing on a pending deferred value fulfils it with the list when
\* the verdict is truthy and rejects it with the list when falsy, also when
\* the user's handler throws, in the call's turn or in a later one.
C28_HandlerCannotChangeSettlement ==
    [][\A which \in {"success", "error"}, executionArgs \in Results,
          throws \in BOOLEAN, caught \in BOOLEAN :
            (Fire(which, executionArgs, throws, caught)
             /\ calls[cur].promise = Pending)
                => calls'[cur].promise =
                    IF verdict(withRedirector(options, which), executionArgs)
                    THEN resolve(Pending, executionArgs)
                    ELSE reject(Pending, executionArgs)]_vars

\* C24: the redirector that governs an adapted function is the one in force
\* when it was adapted: adapting another target with the same options record
\* through another preset leaves the record as it was, and a firing on a call
\* of the first target is still classified by the first target's redirector.
C24_RedirectorFixedAtAdaptation ==
    [][/\ \A preset \in Presets : AdaptOther(preset) => options' = options
       /\ \A which \in {"success", "error"}, executionArgs \in Results,
             caught \in BOOLEAN :
            (Fire(which, executionArgs, FALSE, caught)
             /\ calls[cur].promise = Pending
             /\ configured # Undefined)
                => calls'[cur].promise =
                    IF Truthy(execute(configured, executionArgs))
                    THEN resolve(Pending, executionArgs)
                    ELSE reject(Pending, executionArgs)]_vars

\* The second half of C24 alone: firings are classified by the redirector
\* the first target was adapted with.
ClassifiedAsAdapted ==
    [][\A which \in {"success", "error"}, executionArgs \in Results,
          caught \in BOOLEAN :
            (Fire(which, executionArgs, FALSE, caught)
             /\ calls[cur].promise = Pending
             /\ configured # Undefined)
                => calls'[cur].promise =
                    IF Truthy(execute(configured, executionArgs))
                    THEN resolve(Pending, executionArgs)
                    ELSE reject(Pending, executionArgs)]_vars

\* C29: adapting one instance changes only that instance: every member the
\* adaptation replaces becomes an own member of the instance, its class,
\* every other instance of the class and Object.prototype keep their members
\* with their original references, and a member that is an object keeps its
\* reference and its own members.
C29_OnlyTheInstanceChanges ==
    [][(Adapt /\ HasMembers(target)) =>
        /\ \A id \in Ids \ {"target"} : heap'[id] = heap[id]
        /\ \A name \in Names :
            /\ Get(heap', "sibling", name) = Get(heap, "sibling", name)
            /\ Get(heap', "target", name) # Get(heap, "target", name)
                => IsOwn(heap', name)
            /\ isObject(Get(heap, "target", name))
                => Get(heap', "target", name) = Get(heap, "target", name)]_vars

\* C29 witness: an instance was adapted with no options; its load and save
\* are own wrappers while the class and the other instance still answer with
\* the original methods, and backingStore is as it was.
C29_Witness ==
    /\ result = Returned(RecordTarget, "target")
    /\ selectors = NoSelectors
    /\ heap["proto"].own = ClassOwn
    /\ Get(heap, "target", "save") = promiseified(Method("save"), "target")
    /\ IsOwn(heap, "save")
    /\ Get(heap, "sibling", "save") = Method("save")
    /\ Get(heap, "sibling", "load") = Method("load")
    /\ Get(heap, "target", "backingStore") = Store
    /\ heap["store"] = StoreObject

\* A timer of the request is waiting.
HasTimer(r) == \E j \in DOMAIN timers : timers[j].request = r

\* The request is a save of settings that are not a non-empty object value:
\* falsy, or truthy and not an object.
InvalidSave(r) ==
    /\ requests[r].op = "save"
    /\ ~Truthy(requests[r].arg) \/ ~isSettingsObject(requests[r].arg)

\* An invalid save of the plain manager has invoked nothing while its timer
\* waits, and afterwards exactly one callback: the success callback with {}
\* for falsy settings, the error callback with the message otherwise.
InvalidSaveAnswered ==
    \A r \in DOMAIN requests :
        (requests[r].instance = "standard" /\ InvalidSave(r)) =>
            IF HasTimer(r) THEN requests[r].delivered = <<>>
            ELSE requests[r].delivered =
                    IF ~Truthy(requests[r].arg)
                    THEN <<[fn |-> onOk, args |-> <<EmptySettings>>]>>
                    ELSE <<[fn |-> onFail, args |-> <<NotAnObject>>]>>

\* C27: save with invalid settings never changes the store, so that a later
\* load delivers what it would have delivered before; for falsy settings the
\* success callback is later invoked with {} and the error callback is not,
\* for truthy settings that are not an object the error callback is later
\* invoked with the message and the success callback is not.
C27_InvalidSaveLeavesStore ==
    [][/\ \A x \in SaveValues :
            (ManagerCall("standard", "save", <<x, onOk, onFail>>)
             /\ (~Truthy(x) \/ ~isSettingsObject(x)))
                => /\ stores' = stores
                   /\ Len(timers') = Len(timers) + 1
       /\ InvalidSaveAnswered']_vars

\* C27 witness: with settings in the store, save(5) invoked the error
\* callback with the message, and a load made afterwards delivered the
\* settings the store held before.
C27_Witness ==
    /\ Len(requests) = 3
    /\ requests[1].op = "save" /\ requests[1].arg = FirstSave
    /\ requests[2].op = "save" /\ requests[2].arg = Setting("number", "5")
    /\ requests[2].delivered = <<[fn |-> onFail, args |-> <<NotAnObject>>]>>
    /\ requests[3].op = "load"
    /\ requests[3].delivered = <<[fn |-> onOk, args |-> <<FirstSave>>]>>

\* The names of the members of a settings value.
KeysOf(x) == IF isSettingsObject(x) THEN {x.f[i].name : i \in DOMAIN x.f} ELSE {}

\* The last clear before request r, 0 when there is none.
LastClear(r) ==
    LET clears == {q \in 1..(r - 1) : requests[q].op = "clear"}
    IN IF clears = {} THEN 0 ELSE CHOOSE q \in clears : \A p \in clears : p <= q

\* The saves of objects before request r that a load at r sees.
SavesBefore(r) ==
    {q \in (LastClear(r) + 1)..(r - 1) :
        requests[q].op = "save" /\ isSettingsObject(requests[q].arg)}

\* The latest of those saves that contained the key.
LatestSaveOf(r, key) ==
    LET with == {q \in SavesBefore(r) : key \in KeysOf(requests[q].arg)}
    IN CHOOSE q \in with : \A p \in with : p <= q

\* The keys saved before request r.
SavedKeys(r) == UNION {KeysOf(requests[q].arg) : q \in SavesBefore(r)}

\* Request r is a load that has delivered, every call up to it having been
\* made after the earlier ones completed.
SequentialLoad(r) ==
    /\ requests[r].op = "load"
    /\ requests[r].delivered # <<>>
    /\ \A q \in 1..r : requests[q].quiet

\* What the load delivered.
Loaded(r) == requests[r].delivered[1].args[1]

MergedInto(r, key) ==
    {q \in SavesBefore(r) :
        /\ key \in KeysOf(requests[q].arg)
        /\ \A p \in q..LatestSaveOf(r, key) :
            (p \in SavesBefore(r) /\ key \in KeysOf(requests[p].arg))
                => isSettingsObject(Field(requests[p].arg, key))}

C25_EffectInCallOrder ==
    \A r \in 1..(Len(requests) - 1) :
        (requests[r].op = "clear" /\ requests[r + 1].instance = requests[r].instance) =>
            /\ (/\ requests[r + 1].op = "save"
                /\ isSettingsObject(requests[r + 1].arg)
                /\ r + 1 = Len(requests)
                /\ timers = <<>>)
                    => stores[requests[r].instance] = requests[r + 1].arg
            /\ (requests[r + 1].op = "load" /\ requests[r + 1].delivered # <<>>)
                    => Loaded(r + 1) = EmptySettings

\* The settlement the claim gives a call on the adapted manager.
SettlesAs(r) ==
    IF requests[r].op = "save" /\ Truthy(requests[r].arg)
                               /\ ~isSettingsObject(requests[r].arg)
    THEN "rejected" ELSE "fulfilled"

\* C26: on a manager adapted by Promiseify, load(), clear() and save(x)
\* called without callbacks return a pending promise that is later settled:
\* fulfilled for load, clear, save of an object and save of a falsy value,
\* rejected for save of a truthy value that is not an object.
C26_AdaptedManagerSettles ==
    \A r \in DOMAIN requests :
        requests[r].instance = "promisified" =>
            IF HasTimer(r) THEN requests[r].promise = Pending
            ELSE requests[r].promise.state = SettlesAs(r)

\* A promise of the adapted manager settled while no default redirector
\* has been stored in the shared options settles as C26 says.
SettlesRightWhileNoDefaultStored ==
    [][options.outcomeRedirector = Undefined =>
        \A r \in DOMAIN requests :
            requests'[r].promise # requests[r].promise
                => requests'[r].promise.state = SettlesAs(r)]_vars

\* The page runs the demo's own script.
IsDemo == runs.saves = DemoSaves

\* The five entries of the demo's log, and the log after the first k.
DemoEntries ==
    <<"onSettingsLoaded\n{}\n=====\n",
      "onSettingsSaved\n\n=====\n",
      "onSettingsLoaded\n{\n  \"one\": 1,\n  \"two\": \"two\"\n}\n=====\n",
      "onSettingsSaved\n\n=====\n",
      "onSettingsLoaded\n{\n  \"one\": 1,\n  \"two\": 2,\n  \"three\": 3\n}\n=====\n">>

RECURSIVE DemoLog(_)
DemoLog(k) == IF k = 0 THEN "" ELSE DemoLog(k - 1) \o DemoEntries[k]

\* The number of answers a run has logged.
Logged(instance) ==
    Cardinality({r \in DOMAIN requests :
        requests[r].instance = instance /\ requests[r].delivered # <<>>})

\* Both runs have called done.
BothDone == runs.standard.done /\ runs.promisified.done

\* Each run of the demo has logged the entries of the answers it got so far
\* and never called onError, it is done exactly when all five are logged,
\* and the alert says the content matches once both are done.
DemoLogsAgree ==
    IsDemo =>
        /\ \A i \in Instances :
            /\ runs[i].errors = 0
            /\ runs[i].text = DemoLog(Logged(i))
            /\ runs[i].done <=> Logged(i) = Len(DemoEntries)
        /\ runs.alert = IF BothDone THEN ContentMatches ELSE Running

\* C21: the demo's two runs, each on its own fresh instance and under every
\* interleaving of their timer callbacks, log the same five entries (loaded
\* {}, saved, loaded {one:1,two:'two'}, saved, loaded {one:1,two:2,three:3}),
\* both reach done without calling their error handler, and the comparison
\* reports that the content matches.
C21_RunsLogTheSame == [](DemoLogsAgree) /\ <>(IsDemo => BothDone)

\* C21 witness: the demo's script has run to the end: both runs are done,
\* both text areas hold the five entries and the alert says they match.
C21_Witness ==
    /\ IsDemo
    /\ BothDone
    /\ runs.standard.text = DemoLog(5)
    /\ runs.promisified.text = DemoLog(5)
    /\ runs.alert = ContentMatches

\* Whatever two objects the runs save, the two runs finish without calling
\* onError and with the same text.
RunsAgreeOnObjects ==
    (runs.saves[1] \in SaveObjects /\ runs.saves[2] \in SaveObjects) =>
        /\ \A i \in Instances : runs[i].errors = 0
        /\ BothDone => runs.alert = ContentMatches

====
